---- MODULE Spec2Model ----
(***************************************************************************)
(* Model of the matchtext gazetteer matchers:                              *)
(*   src/matchtext/stringmatcher.py  (StringMatcher, character trie)       *)
(*   src/matchtext/tokenmatcher.py   (TokenMatcher, token dictionary)      *)
(*                                                                         *)
(* A string is a sequence of one-character strings.  A trie node is named  *)
(* by the sequence of mapped characters leading to it from the root, and   *)
(* the trie is the function from the existing nodes to their value slot.   *)
(***************************************************************************)
EXTENDS Integers, Sequences, FiniteSets, TLC

VARIABLES
    ignorefunc,   \* StringMatcher.ignorefunc / TokenMatcher.ignorefunc
    mapfunc,      \* StringMatcher.mapfunc / TokenMatcher.mapfunc
    root,         \* StringMatcher._root: node (path) -> node.value
    dict,         \* TokenMatcher._dict: node (token path) -> Node
    ret,          \* the last call: its arguments and what it returned or raised
    run           \* history: the current series of appending adds on one entry

vars == <<ignorefunc, mapfunc, root, dict, ret, run>>

----------------------------------------------------------------------------
(* Bounds of the model *)

\* longest entry that is added to the gazetteer
MaxLen == 3
\* longest text that is searched
MaxText == 4
\* most nodes (besides the root) a trie is grown to
MaxNodes == 3
\* most values an appended list is grown to
MaxList == 2
\* longest key of the dictionary-style accessors and of the add calls of Spec,
\* and most nodes (besides the root) the trie of Spec is grown to
MaxKeyLen == 2

\* the characters: "A" is mapped to "a" by the map function, "_" is the
\* character the ignore predicate holds for
Chars == {"a", "A", "_"}

RECURSIVE SeqsUpTo(_, _)
SeqsUpTo(S, n) ==
    IF n = 0 THEN {<<>>}
    ELSE LET shorter == SeqsUpTo(S, n - 1)
         IN  shorter \cup {Append(s, c) : s \in shorter, c \in S}

Strings == SeqsUpTo(Chars, MaxLen)
Texts == SeqsUpTo(Chars, MaxText)
Keys == SeqsUpTo(Chars, MaxKeyLen)

Max(x, y) == IF x >= y THEN x ELSE y

----------------------------------------------------------------------------
(* Values *)

\* the sentinel _NOVALUE = object(): no entry ends at the node
NOVALUE == [t |-> "NOVALUE"]
\* Python's None
None == [t |-> "None"]
Num(n) == [t |-> "int", v |-> n]
List(s) == [t |-> "list", v |-> s]

\* the data values the callers pass
Data == {None, Num(1)}

thisorthat(this, that) == IF this = None THEN that ELSE this

\* the constructor arguments matcherdata (left at its default) and defaultdata
matcherdata == None
defaultdata == Num(0)

----------------------------------------------------------------------------
(* The injected functions *)

\* "if self.ignorefunc and self.ignorefunc(chr)"
Ignored(el) == ignorefunc /= "None" /\ el = "_"

\* str.lower on the characters and tokens of the model
lower(el) ==
    CASE el = "A" -> "a"
      [] el = "Some" -> "some"
      [] el = "This" -> "this"
      [] OTHER -> el

\* "if self.mapfunc: chr = self.mapfunc(chr)"
Mapped(el) == IF mapfunc /= "None" THEN lower(el) ELSE el

----------------------------------------------------------------------------
(* StringMatcher: the trie *)

\* _Node.__init__: a new node has no children and value _NOVALUE
NewNode(r, node) == [n \in DOMAIN r \cup {node} |-> IF n \in DOMAIN r THEN r[n] ELSE NOVALUE]

SetValue(r, node, val) == [r EXCEPT ![node] = val]

\* StringMatcher._get_node: the walk from the root over the elements of item.
\* found = FALSE with raised = "no" is the None it returns.
RECURSIVE get_node_from(_, _, _, _, _, _)
get_node_from(r, node, item, j, create, raise_error) ==
    IF j > Len(item) THEN [found |-> TRUE, node |-> node, root |-> r, raised |-> "no"]
    ELSE IF Ignored(item[j]) THEN get_node_from(r, node, item, j + 1, create, raise_error)
    ELSE LET child == Append(node, Mapped(item[j]))
         IN  IF create
             THEN get_node_from(IF child \in DOMAIN r THEN r ELSE NewNode(r, child),
                                child, item, j + 1, create, raise_error)
             ELSE IF child \in DOMAIN r
                  THEN get_node_from(r, child, item, j + 1, create, raise_error)
                  ELSE [found |-> FALSE, node |-> <<>>, root |-> r,
                        raised |-> IF raise_error THEN "KeyError" ELSE "no"]

get_node(r, item, create, raise_error) == get_node_from(r, <<>>, item, 1, create, raise_error)

\* an insert at the front in place of line 95
Prepended(list, data) == <<data>> \o list

\* line 95: "node.value.append(data)"
Appended(list, data) == Append(list, data)

\* StringMatcher.add, lines 83-97: the loop over the entries
RECURSIVE add_from(_, _, _, _, _)
add_from(r, entries, j, data, append) ==
    IF j > Len(entries) THEN [root |-> r, raised |-> "no"]
    ELSE LET g == get_node(r, entries[j], TRUE, TRUE)
             node == g.node
             r1 == g.root
         IN  IF node = <<>> THEN add_from(r1, entries, j + 1, data, append)
             ELSE IF r1[node] = NOVALUE
             THEN add_from(SetValue(r1, node, IF append THEN List(<<data>>) ELSE data),
                           entries, j + 1, data, append)
             ELSE IF append
             THEN IF r1[node].t = "list"
                  THEN add_from(SetValue(r1, node, List(Appended(r1[node].v, data))),
                                entries, j + 1, data, append)
                  ELSE [root |-> r1, raised |-> "AttributeError"]
             ELSE add_from(SetValue(r1, node, data), entries, j + 1, data, append)

\* StringMatcher.add: a str is one entry, anything else is iterated
add(r, entry, data, append) ==
    add_from(r, IF entry.str THEN <<entry.v>> ELSE entry.v, 1, data, append)

\* StringMatcher.__setitem__
setitem(r, key, val) ==
    LET g == get_node(r, key, TRUE, TRUE)
    IN  [root |-> SetValue(g.root, g.node, val), raised |-> "no"]

\* __getitem__ without the test of lines 181-182
getitem_unchecked(r, item) ==
    LET g == get_node(r, item, FALSE, TRUE)
    IN  IF ~g.found THEN [root |-> g.root, raised |-> "KeyError", val |-> None]
        ELSE [root |-> g.root, raised |-> "no", val |-> g.root[g.node]]

\* StringMatcher.__getitem__
getitem(r, item) ==
    LET g == get_node(r, item, FALSE, TRUE)
    IN  IF ~g.found THEN [root |-> g.root, raised |-> "KeyError", val |-> None]
        ELSE IF g.root[g.node] = NOVALUE
        THEN [root |-> g.root, raised |-> "KeyError", val |-> None]
        ELSE [root |-> g.root, raised |-> "no", val |-> g.root[g.node]]

\* StringMatcher.get
get(r, item, default) ==
    LET g == get_node(r, item, FALSE, FALSE)
    IN  IF ~g.found THEN [root |-> g.root, raised |-> g.raised, val |-> default]
        ELSE IF g.root[g.node] = NOVALUE
        THEN [root |-> g.root, raised |-> "no", val |-> default]
        ELSE [root |-> g.root, raised |-> "no", val |-> g.root[g.node]]

----------------------------------------------------------------------------
(* StringMatcher.find *)

\* text[a:b] with 0 <= a <= b <= len(text)
Slice(text, a, b) == SubSeq(text, a + 1, b)

\* Match(i, i + k + 1, text[i:i+k+1], thisorthat(node.value, self.defaultdata),
\*       self.matcherdata); a caller's matchmaker is not modelled
Match(text, i, k, val) ==
    [start |-> i, end |-> i + k + 1, match |-> Slice(text, i, i + k + 1),
     entrydata |-> thisorthat(val, defaultdata), matcherdata |-> matcherdata]

\* lines 154-164: the inner "while True" loop, which moves k to the next
\* element that is not ignored, or to the end of the text
RECURSIVE next_k(_, _, _)
next_k(text, i, k) ==
    IF i + k + 1 >= Len(text) THEN k + 1
    ELSE IF Ignored(text[i + k + 2]) THEN next_k(text, i, k + 1)
    ELSE k + 1

\* a first-match-wins comparison in place of line 151
IsFirst(cur_len, longest_len) == longest_len = 0

\* line 151: "if cur_len > longest_len"
IsLonger(cur_len, longest_len) == cur_len > longest_len

\* lines 139-166: the loop "while node is not None" from an existing node.
\* st holds matches, longest_len and longest_match (a sequence of at most one).
RECURSIVE walk(_, _, _, _, _, _, _)
walk(r, text, i, node, k, all, st) ==
    LET match == Match(text, i, k, r[node])
        st1 == IF r[node] = NOVALUE THEN st
               ELSE IF all THEN [st EXCEPT !.matches = Append(@, match)]
               ELSE IF IsLonger(k + 1, st.longest_len)
                    THEN [st EXCEPT !.longest_len = k + 1, !.longest_match = <<match>>]
                    ELSE st
        k1 == next_k(text, i, k)
    IN  IF i + k1 >= Len(text) THEN [k |-> k1, st |-> st1]
        ELSE LET child == Append(node, Mapped(text[i + k1 + 1]))
             IN  IF child \in DOMAIN r THEN walk(r, text, i, child, k1, all, st1)
                 ELSE [k |-> k1, st |-> st1]

\* an advance that ignores skip in place of lines 169-172
AdvanceByOne(i, k, skip) == i + 1

\* lines 169-172: the next start index
Advance(i, k, skip) == IF skip THEN i + Max(k, 1) ELSE i + 1

\* line 127: "while i < toidx"
InRange(i, toidx) == i < toidx

\* lines 127-172: the loop over the start indices.  starts records the start
\* indices the loop body ran for.
RECURSIVE scan(_, _, _, _, _, _, _, _)
scan(r, text, all, skip, toidx, i, matches, starts) ==
    IF ~InRange(i, toidx) THEN [matches |-> matches, starts |-> starts]
    ELSE IF Ignored(text[i + 1])
    THEN scan(r, text, all, skip, toidx, i + 1, matches, Append(starts, i))
    ELSE LET first == <<Mapped(text[i + 1])>>
             st0 == [matches |-> matches, longest_len |-> 0, longest_match |-> <<>>]
             w == IF first \in DOMAIN r THEN walk(r, text, i, first, 0, all, st0)
                  ELSE [k |-> 0, st |-> st0]
             found == IF all THEN w.st.matches ELSE w.st.matches \o w.st.longest_match
         IN  scan(r, text, all, skip, toidx, Advance(i, w.k, skip), found,
                  Append(starts, i))

\* StringMatcher.find
find(r, text, all, skip, fromidx, toidx) ==
    LET l == Len(text)
        from == IF fromidx = None THEN 0 ELSE fromidx.v
        to0 == IF toidx = None THEN l - 1 ELSE toidx.v
        to == IF to0 >= l THEN l - 1 ELSE to0
    IN  IF from >= l THEN [matches |-> <<>>, starts |-> <<>>]
        ELSE IF from > to THEN [matches |-> <<>>, starts |-> <<>>]
        ELSE scan(r, text, all, skip, to, from, <<>>, <<>>)

----------------------------------------------------------------------------
(* StringMatcher.replace *)

RECURSIVE Flatten(_)
Flatten(parts) == IF parts = <<>> THEN <<>> ELSE Head(parts) \o Flatten(Tail(parts))

\* str() of a data value, and repr() of a list's items: the same for these values
RECURSIVE Str(_)
RECURSIVE JoinStr(_)
JoinStr(items) ==
    IF items = <<>> THEN <<>>
    ELSE IF Len(items) = 1 THEN Str(items[1])
    ELSE Str(items[1]) \o <<",", " ">> \o JoinStr(Tail(items))
Str(val) ==
    IF val = None THEN <<"N", "o", "n", "e">>
    ELSE IF val.t = "int" THEN <<IF val.v = 0 THEN "0" ELSE "1">>
    ELSE <<"[">> \o JoinStr(val.v) \o <<"]">>

\* "last = match.start" in place of line 235
NewLastAtStart(match) == match.start

\* line 235: "last = match.end"
NewLast(match) == match.end

\* lines 226-235: the loop over the matches
RECURSIVE replace_from(_, _, _, _, _)
replace_from(text, matches, j, last, parts) ==
    IF j > Len(matches) THEN [last |-> last, parts |-> parts]
    ELSE LET match == matches[j]
             parts1 == IF match.start > last
                       THEN Append(parts, Slice(text, last, match.start))
                       ELSE parts
         IN  IF match.start >= last
             THEN replace_from(text, matches, j + 1, NewLast(match),
                               Append(parts1, Str(match.entrydata)))
             ELSE replace_from(text, matches, j + 1, last, parts1)

\* StringMatcher.replace with the default replacer, str(match.entrydata)
replace(r, text, fromidx, toidx) ==
    LET matches == find(r, text, FALSE, TRUE, fromidx, toidx).matches
        done == replace_from(text, matches, 1, 0, <<>>)
        parts == IF done.last < Len(text)
                 THEN Append(done.parts, Slice(text, done.last, Len(text)))
                 ELSE done.parts
    IN  IF Len(matches) = 0 THEN text ELSE Flatten(parts)

----------------------------------------------------------------------------
(* TokenMatcher *)

\* Node.__init__ with its defaults: isMatch=None, data=None, nodes=None
Node == [isMatch |-> "None", data |-> None, nodes |-> "None"]

\* defaultdict(Node).__getitem__: the node of the key, made when missing
Lookup(d, node) == [n \in DOMAIN d \cup {node} |-> IF n \in DOMAIN d THEN d[n] ELSE Node]

\* TokenMatcher.add, lines 84-99: the loop over the tokens of the entry.
\* i = 0 is "no token kept so far": node is still None.
RECURSIVE tm_add_from(_, _, _, _, _)
tm_add_from(d, entry, j, node, i) ==
    IF j > Len(entry) THEN [dict |-> d, node |-> node, i |-> i]
    ELSE LET token == Mapped(entry[j])
         IN  IF Ignored(token)
             THEN tm_add_from(d, entry, j + 1, node, i)
             ELSE IF i = 0
             THEN tm_add_from(Lookup(d, <<token>>), entry, j + 1, <<token>>, i + 1)
             ELSE LET d1 == [d EXCEPT ![node].nodes = "defaultdict"]
                  IN  tm_add_from(Lookup(d1, Append(node, token)), entry, j + 1,
                                  Append(node, token), i + 1)

\* TokenMatcher.add: "node.data = data" raises on the None that node still is
\* when no token was kept.  entry.v is the list of tokens: [entry] for a str.
tm_add(d, entry, data) ==
    LET w == tm_add_from(d, entry.v, 1, <<>>, 0)
    IN  IF w.i = 0 THEN [dict |-> w.dict, raised |-> "AttributeError"]
        ELSE [dict |-> [w.dict EXCEPT ![w.node].data = data, ![w.node].isMatch = "True"],
              raised |-> "no"]

\* TokenMatcher.find, lines 116-158: the loop over the tokens.  Node declares
\* __slots__ = ("isMatch", "data", "nodes"), so reading node.continuations at
\* line 125 raises AttributeError for the first token that is a key of _dict.
RECURSIVE tm_find_from(_, _, _, _)
tm_find_from(d, tokens, i, matches) ==
    IF i >= Len(tokens) THEN [raised |-> "no", matches |-> matches]
    ELSE LET token == Mapped(tokens[i + 1])
         IN  IF <<token>> \in DOMAIN d
             THEN [raised |-> "AttributeError", matches |-> <<>>]
             ELSE tm_find_from(d, tokens, i + 1, matches)

\* the keyword parameters of "def find(self, tokens, all=True, fromidx=None, toidx=None)"
FindKeywords == {"all", "fromidx", "toidx"}

\* TokenMatcher.find called with the keyword arguments kw
tm_find(d, tokens, all, kw) ==
    IF ~(kw \subseteq FindKeywords) THEN [raised |-> "TypeError", matches |-> <<>>]
    ELSE tm_find_from(d, tokens, 0, <<>>)

----------------------------------------------------------------------------
(* The calls *)

\* the entry argument of add: a str, or a list of str
StrArg(x) == [str |-> TRUE, v |-> x]
ListArg(xs) == [str |-> FALSE, v |-> xs]

\* the lists of entries that are drawn: at most two entries
ListArgs == {ListArg(xs) : xs \in SeqsUpTo({<<"a">>, <<"_">>}, 2)}

\* the <<fromidx, toidx>> arguments that are drawn
IdxArgs == {<<None, None>>, <<Num(1), None>>, <<None, Num(1)>>, <<Num(1), Num(0)>>}

Bounded(r, nodes) ==
    /\ Cardinality(DOMAIN r) <= nodes + 1
    /\ \A n \in DOMAIN r : r[n].t = "list" => Len(r[n].v) <= MaxList

\* the element sequence an entry or key stands for: its elements that are
\* not ignored, mapped
Norm(x) ==
    LET kept == SelectSeq(x, LAMBDA el : ~Ignored(el))
    IN  [j \in 1 .. Len(kept) |-> Mapped(kept[j])]

HasData(r, node) == node \in DOMAIN r /\ r[node] /= NOVALUE

\* an add call whose entries are all empty or made of ignored elements only
NoElementKept(entry) ==
    LET entries == IF entry.str THEN <<entry.v>> ELSE entry.v
    IN  \A j \in 1 .. Len(entries) : Norm(entries[j]) = <<>>

\* history of the appending adds: the series of successful calls
\* add(entry, d, append=True) on entries with the same element sequence that
\* began when that entry was absent
NoRun == [on |-> FALSE, key |-> <<>>, datas |-> <<>>]
NextRun(entry, data, append, res) ==
    IF ~(entry.str /\ append /\ res.raised = "no" /\ Norm(entry.v) /= <<>>) THEN NoRun
    ELSE IF ~HasData(root, Norm(entry.v))
    THEN [on |-> TRUE, key |-> Norm(entry.v), datas |-> <<data>>]
    ELSE IF run.on /\ run.key = Norm(entry.v)
    THEN [run EXCEPT !.datas = Append(@, data)]
    ELSE NoRun

Add(entry, data, append) ==
    LET res == add(root, entry, data, append)
    IN  /\ root' = res.root
        /\ ret' = [op |-> "add", empty |-> NoElementKept(entry), raised |-> res.raised]
        /\ run' = NextRun(entry, data, append, res)
        /\ UNCHANGED <<ignorefunc, mapfunc, dict>>

SetItem(key, value) ==
    LET res == setitem(root, key, value)
    IN  /\ root' = res.root
        /\ ret' = [op |-> "setitem", raised |-> res.raised]
        /\ run' = NoRun
        /\ UNCHANGED <<ignorefunc, mapfunc, dict>>

GetItem(item) ==
    LET res == getitem(root, item)
    IN  /\ root' = res.root
        /\ ret' = [op |-> "getitem", item |-> item, raised |-> res.raised, val |-> res.val]
        /\ UNCHANGED <<ignorefunc, mapfunc, dict, run>>

Get(item, default) ==
    LET res == get(root, item, default)
    IN  /\ ret' = [op |-> "get", item |-> item, default |-> default,
                   raised |-> res.raised, val |-> res.val]
        /\ root' = res.root
        /\ UNCHANGED <<ignorefunc, mapfunc, dict, run>>

Find(text, all, skip, fromidx, toidx) ==
    LET res == find(root, text, all, skip, fromidx, toidx)
    IN  /\ ret' = [op |-> "find", text |-> text, all |-> all, skip |-> skip,
                   fromidx |-> fromidx, toidx |-> toidx,
                   matches |-> res.matches, starts |-> res.starts]
        /\ UNCHANGED <<ignorefunc, mapfunc, root, dict, run>>

Replace(text, fromidx, toidx) ==
    /\ ret' = [op |-> "replace", text |-> text, fromidx |-> fromidx, toidx |-> toidx,
               out |-> replace(root, text, fromidx, toidx)]
    /\ UNCHANGED <<ignorefunc, mapfunc, root, dict, run>>

----------------------------------------------------------------------------
(* The specifications *)

\* after construction: an empty trie, an empty dictionary
Init ==
    /\ ignorefunc \in {"None", "is_underscore"}
    /\ mapfunc \in {"None", "lower"}
    /\ root = [n \in {<<>>} |-> NOVALUE]
    /\ dict = [n \in {} |-> Node]
    /\ ret = [op |-> "init"]
    /\ run = NoRun

\* The calls that change nothing and return a result.  ret holds the result
\* under examination: the calls that may follow a query are those that may
\* follow the state it was made in, so a behaviour is not continued past it.
Queries == {"getitem", "get", "find", "replace", "tm_find"}
Observed == ret.op \in Queries

\* StringMatcher as a dictionary: add, __setitem__, __getitem__, get
AddKey ==
    /\ ~Observed
    /\ \E key \in Keys, data \in Data, append \in BOOLEAN :
            Add(StrArg(key), data, append) /\ Bounded(root', MaxKeyLen)
AddList ==
    /\ ~Observed
    /\ \E entry \in ListArgs, data \in Data, append \in BOOLEAN :
            Add(entry, data, append) /\ Bounded(root', MaxKeyLen)
SetKey ==
    /\ ~Observed
    /\ \E key \in Keys, value \in Data : SetItem(key, value) /\ Bounded(root', MaxKeyLen)
GetItemKey == ~Observed /\ \E item \in Keys : GetItem(item)
GetKey == ~Observed /\ \E item \in Keys : Get(item, Num(0))

Next == AddKey \/ AddList \/ SetKey \/ GetItemKey \/ GetKey

Spec == Init /\ [][Next]_vars

\* StringMatcher as a matcher: a gazetteer is added, texts are searched
AddEntry ==
    /\ ~Observed
    /\ \E entry \in Strings : Add(StrArg(entry), Num(1), FALSE) /\ Bounded(root', MaxNodes)
FindText ==
    /\ ~Observed
    /\ \E text \in Texts, all \in BOOLEAN, skip \in BOOLEAN, idx \in IdxArgs :
            Find(text, all, skip, idx[1], idx[2])
ReplaceText ==
    /\ ~Observed
    /\ \E text \in Texts, idx \in IdxArgs : Replace(text, idx[1], idx[2])

NextFind == AddEntry \/ FindText \/ ReplaceText

SpecFind == Init /\ [][NextFind]_vars

\* TokenMatcher: the entries of src/tests/test_tokenmatcher.py are added, each
\* with its index as data, as are entries without a token that is kept; the
\* same entries of ignorable elements are added to a StringMatcher
TmAdd(entry, data) ==
    LET res == tm_add(dict, entry, data)
    IN  /\ dict' = res.dict
        /\ ret' = [op |-> "tm_add", entry |-> entry, data |-> data, raised |-> res.raised]
        /\ UNCHANGED <<ignorefunc, mapfunc, root, run>>

TmFind(tokens, all, kw) ==
    LET res == tm_find(dict, tokens, all, kw)
    IN  /\ ret' = [op |-> "tm_find", tokens |-> tokens, all |-> all, kw |-> kw,
                   raised |-> res.raised, matches |-> res.matches]
        /\ UNCHANGED <<ignorefunc, mapfunc, root, dict, run>>

\* a str token as the entry argument: "entry = [entry]"
TokenArg(x) == [str |-> TRUE, v |-> <<x>>]

ENTRIES ==
    <<TokenArg("Some"), TokenArg("word"), TokenArg("to"), TokenArg("add"),
      ListArg(<<"some", "word">>), ListArg(<<"some", "word">>)>>

TmAddArgs ==
    {<<ENTRIES[n], Num(n - 1)>> : n \in 1 .. Len(ENTRIES)}
        \cup {<<ListArg(<<>>), None>>, <<TokenArg("_"), None>>, <<ListArg(<<"_", "_">>), Num(1)>>}

TmTexts ==
    {<<"This", "contains", "Some", "text">>,
     <<"this", "contains", "some", "word", "of", "text", "to", "add">>,
     <<"This", "_", "text">>,
     <<>>}

TmAddEntry == ~Observed /\ \E a \in TmAddArgs : TmAdd(a[1], a[2])
TmFindTokens ==
    /\ ~Observed
    /\ \E tokens \in TmTexts, all \in BOOLEAN, kw \in {{"all"}, {"all", "skip"}} :
            TmFind(tokens, all, kw)

AddIgnorable ==
    /\ ~Observed
    /\ \E entry \in SeqsUpTo({"_"}, MaxKeyLen) : Add(StrArg(entry), Num(1), FALSE)

NextTM == TmAddEntry \/ TmFindTokens \/ AddIgnorable

SpecTM == Init /\ [][NextTM]_vars

----------------------------------------------------------------------------
(* Claims on StringMatcher.find and StringMatcher.replace, under SpecFind *)

IsFind == ret.op = "find"

\* the range of start indices find works on, as lines 114-124 set it
FromOf(c) == IF c.fromidx = None THEN 0 ELSE c.fromidx.v
ToOf(c) ==
    LET l == Len(c.text)
        to0 == IF c.toidx = None THEN l - 1 ELSE c.toidx.v
    IN  IF to0 >= l THEN l - 1 ELSE to0
ValidRange(c) == FromOf(c) < Len(c.text) /\ FromOf(c) <= ToOf(c)

\* an entry occurs in text at [i, e): the span begins and ends with an element
\* that is kept, and the kept elements, mapped, are an entry with data
Occurs(text, i, e) ==
    /\ 0 <= i /\ i < e /\ e <= Len(text)
    /\ ~Ignored(text[i + 1]) /\ ~Ignored(text[e])
    /\ HasData(root, Norm(Slice(text, i, e)))
OccursAt(text, i) == \E e \in i + 1 .. Len(text) : Occurs(text, i, e)

\* the length of the longest of the matches ms that start at s, 0 without one
RECURSIVE LongestAt(_, _)
LongestAt(ms, s) ==
    IF ms = <<>> THEN 0
    ELSE LET m == Head(ms)
         IN  Max(IF m.start = s THEN m.end - m.start ELSE 0, LongestAt(Tail(ms), s))

C2_SkipAdvance ==
    IsFind /\ ret.skip =>
        \A j \in 1 .. Len(ret.starts) :
            LET i == ret.starts[j]
                next == i + Max(1, LongestAt(ret.matches, i))
            IN  next < ToOf(ret) => j < Len(ret.starts) /\ ret.starts[j + 1] = next

\* C3 as claimed: every index from..to is a candidate start, so that (without
\* skipping) an entry that occurs at index to is reported.
C3_LastIndexIsCandidate ==
    IsFind /\ ~ret.skip /\ ValidRange(ret) /\ OccursAt(ret.text, ToOf(ret)) =>
        \E j \in 1 .. Len(ret.matches) : ret.matches[j].start = ToOf(ret)

\* the matches of ms that no other match of ms with the same start exceeds
LongestPerStart(ms) ==
    LET longest(m) == \A j \in 1 .. Len(ms) : ms[j].start = m.start => ms[j].end <= m.end
    IN  SelectSeq(ms, longest)

\* C4: the result with all=false is the result with all=true of the same call
\* restricted, for each start index, to its longest match.
C4_LongestOfAll ==
    IsFind /\ ~ret.all =>
        ret.matches =
            LongestPerStart(find(root, ret.text, TRUE, ret.skip, ret.fromidx, ret.toidx).matches)

C4_Witness ==
    /\ IsFind /\ ~ret.all /\ Len(ret.matches) >= 1
    /\ Len(find(root, ret.text, TRUE, ret.skip, ret.fromidx, ret.toidx).matches)
           > Len(ret.matches)

\* the matches replace works on
ReplaceMatches == find(root, ret.text, FALSE, TRUE, ret.fromidx, ret.toidx).matches
Covering(ms, p) == {j \in 1 .. Len(ms) : ms[j].start <= p /\ p < ms[j].end}

\* what the output holds for input position p: the element itself when no
\* match covers p, the replacement where a match starts, nothing inside a match
Piece(text, ms, p) ==
    IF Covering(ms, p) = {} THEN <<text[p + 1]>>
    ELSE LET j == CHOOSE x \in Covering(ms, p) : TRUE
         IN  IF ms[j].start = p THEN Str(ms[j].entrydata) ELSE <<>>

\* C5: no input position lies in two matches, the output of replace is, in
\* input order, each position outside the matches copied once and one
\* replacement per match, and without a match it is the input.
C5_ReplaceCoverage ==
    ret.op = "replace" =>
        LET ms == ReplaceMatches
            text == ret.text
        IN  /\ \A p \in 0 .. Len(text) - 1 : Cardinality(Covering(ms, p)) <= 1
            /\ ret.out = Flatten([q \in 1 .. Len(text) |-> Piece(text, ms, q - 1)])
            /\ ms = <<>> => ret.out = text

C5_Witness ==
    /\ ret.op = "replace"
    /\ Len(ReplaceMatches) >= 2
    /\ \E p \in 0 .. Len(ret.text) - 1 : Covering(ReplaceMatches, p) = {}

----------------------------------------------------------------------------
(* Claims on StringMatcher as a dictionary, under Spec *)

C8_Lookup ==
    /\ [](ret.op = "getitem" =>
            IF HasData(root, Norm(ret.item))
            THEN ret.raised = "no" /\ ret.val = root[Norm(ret.item)]
            ELSE ret.raised = "KeyError")
    /\ [](ret.op = "get" =>
            /\ ret.raised = "no"
            /\ ret.val = IF HasData(root, Norm(ret.item)) THEN root[Norm(ret.item)]
                         ELSE ret.default)
    /\ [][ret'.op \in {"getitem", "get"} => root' = root]_vars

C8_Witness ==
    /\ ret.op = "getitem"
    /\ ret.raised = "KeyError"
    /\ Norm(ret.item) \in DOMAIN root
    /\ Norm(ret.item) /= <<>>

\* C10 as claimed: the root node never carries entry data.
C10_RootHasNoData == root[<<>>] = NOVALUE

\* C11 as claimed: add(entry, d, append) on an entry with an element that is
\* kept completes whatever the earlier calls on the entry were; after it the
\* entry's value is a list that ends with d when append is true, and is d
\* when append is false.
C11_AddCompletes ==
    [][\A key \in Keys, data \in Data, append \in BOOLEAN :
            Add(StrArg(key), data, append) /\ Norm(key) /= <<>> =>
                /\ ret'.raised = "no"
                /\ HasData(root', Norm(key))
                /\ IF append
                   THEN /\ root'[Norm(key)].t = "list"
                        /\ Len(root'[Norm(key)].v) >= 1
                        /\ root'[Norm(key)].v[Len(root'[Norm(key)].v)] = data
                   ELSE root'[Norm(key)] = data]_vars

----------------------------------------------------------------------------
(* Claims on the two add methods and on TokenMatcher.find, under SpecTM *)

\* C7 as claimed: an add of an entry without an element that is kept returns
\* normally and changes neither the trie nor the dictionary.
C7_EmptyEntryNoOp ==
    [][/\ ret'.op = "add" /\ ret'.empty => ret'.raised = "no" /\ root' = root
       /\ ret'.op = "tm_add" /\ Norm(ret'.entry.v) = <<>> =>
              ret'.raised = "no" /\ dict' = dict]_vars

\* the dictionary of the scenario: Some=0, word=1, to=2, add=3, [some, word]=4
RECURSIVE AddedAll(_, _, _)
AddedAll(d, entries, n) ==
    IF n > Len(entries) THEN d
    ELSE AddedAll(tm_add(d, entries[n], Num(n - 1)).dict, entries, n + 1)
ScenarioDict == AddedAll([n \in {} |-> Node], SubSeq(ENTRIES, 1, 5), 1)

\* C9 as claimed: with the entries of the scenario and a case-insensitive map,
\* find(["This", "contains", "Some", "text"], all=false, skip=true) returns
\* the one match of "Some": start 2, end 3, entry data 0.
C9_TokenScenario ==
    /\ ret.op = "tm_find"
    /\ mapfunc = "lower" /\ ignorefunc = "None"
    /\ dict = ScenarioDict
    /\ ret.tokens = <<"This", "contains", "Some", "text">>
    /\ ~ret.all /\ "skip" \in ret.kw
    => /\ ret.raised = "no"
       /\ Len(ret.matches) = 1
       /\ ret.matches[1].start = 2
       /\ ret.matches[1].end = 3
       /\ ret.matches[1].entrydata = Num(0)

====
